---- MODULE Spec2Model ----
(***************************************************************************)
(* Model of @stridetime/core: the productivity scoring functions           *)
(* (scoring/calculate.ts), the planning operations and the priority score  *)
(* (planning/assign.ts).                                                   *)
(*                                                                         *)
(* Numbers.  The scoring functions compute in JavaScript doubles.  The     *)
(* model keeps the unrounded points as exact integers in thousandths of a  *)
(* point and the one-decimal fields of a TaskScore in tenths of a point.   *)
(* Over the whole input domain (five multipliers, progress 0..100) the     *)
(* double computation and the exact one give the same Math.round results,  *)
(* except for Math.round(basePoints * 10) on the six inputs listed in      *)
(* DoubleBelowHalf, which the model reproduces.                            *)
(***************************************************************************)
EXTENDS Integers, Sequences, FiniteSets, TLC

VARIABLES
    task,        \* the Task passed to a scoring / priority function
    context,     \* the ScoringContext passed to calculateTaskScore
    today,       \* the Date passed to calculatePriority
    score,       \* result of calculateTaskScore, None before the call
    efficiency,  \* result of calculateEfficiency, None before the call
    priority,    \* result of calculatePriority, None before the call
    tasks,       \* the tasks table: task id -> row
    clock,       \* the wall clock read by new Date()
    returned,    \* the Task the last planning call resolved to (None: undefined)
    lastCall,    \* history: the name of the last planning call, "none" at first
    trip,        \* history: per task, the assign ... unassign sequence under way
    calls,       \* the planning calls of concurrent callers: caller -> call
    tasks0,      \* history: the tasks table before the concurrent calls
    completedTasks,  \* the Task[] passed to calculateDailyScore
    dailyScore,  \* result of calculateDailyScore, None before the call
    params,      \* the arguments of the task call to make, None when there is none
    thrown,      \* the error the last call threw, None when it returned
    entries,     \* the time_entries table: entry id -> row
    starts       \* the TimeEntryService.start calls under way: caller -> call

fnVars == <<task, context, today, score, efficiency, priority>>

storeVars == <<tasks, clock, returned, lastCall, trip>>

concVars == <<calls, tasks0>>

dailyVars == <<completedTasks, dailyScore>>

timeVars == <<entries, starts>>

callVars == <<params, thrown>>

extVars == <<concVars, dailyVars, callVars, timeVars>>

vars == <<fnVars, storeVars, extVars>>

(***************************************************************************)
(* Optional values: null / undefined is the empty tuple, a present value v *)
(* is <<v>>.                                                               *)
(***************************************************************************)
None == <<>>
Some(v) == <<v>>
Get(x) == x[1]

\* JavaScript truthiness of a number | null: null, undefined and 0 are falsy.
Truthy(x) == x # None /\ Get(x) # 0

\* Faulty variant: truncation instead of rounding.
MathTrunc(num, den) == num \div den

\* Faulty variant: round half to even instead of half up.
MathRoundHalfEven(num, den) ==
    LET q == num \div den
        r == num % den
    IN  IF 2 * r > den \/ (2 * r = den /\ q % 2 = 1) THEN q + 1 ELSE q

\* Math.round of the rational num / den (den > 0): the nearest integer, a tie
\* going up (towards +Infinity).
MathRound(num, den) == (2 * num + den) \div (2 * den)

\* Math.ceil of the rational num / den (den > 0).
MathCeil(num, den) == -((-num) \div den)

------------------------------------------------------------------------------
(* Bounds of the inputs *)

\* minutes values 0..MaxMinutes are enumerated, plus the spec's example values
MaxMinutes == 2
\* taskTypesWorkedToday ranges over 0..MaxTaskTypes
MaxTaskTypes == 4

\* progress is validated to 0..100
MaxProgress == 100

------------------------------------------------------------------------------
(* scoring/calculate.ts *)

Difficulty == {"TRIVIAL", "EASY", "MEDIUM", "HARD", "EXTREME"}

DIFFICULTY_MULTIPLIERS ==
    [TRIVIAL |-> 1, EASY |-> 2, MEDIUM |-> 3, HARD |-> 5, EXTREME |-> 8]

\* The (multiplier, progress) pairs whose exact basePoints * 10 is k + 1/2 and
\* whose double product multiplier * (progress / 100) * 10 falls just below it
\* (3 * 0.35 is 1.0499999999999998), so that Math.round gives k, not k + 1.
DoubleBelowHalf ==
    {<<3, 35>>, <<3, 95>>, <<5, 47>>, <<5, 57>>, <<5, 59>>, <<5, 83>>}

\* basePoints, unrounded, in thousandths: multiplier * (progress / 100).
BasePointsMilli(t) == DIFFICULTY_MULTIPLIERS[t.difficulty] * t.progress * 10

\* Faulty variant: the bonus also when the task took exactly the estimate.
EfficiencyConditionAtMost(t) ==
    /\ t.progress = 100
    /\ Truthy(t.estimated_minutes)
    /\ t.actual_minutes <= Get(t.estimated_minutes)

\* The efficiency bonus condition of calculateTaskScore.
EfficiencyCondition(t) ==
    /\ t.progress = 100
    /\ Truthy(t.estimated_minutes)
    /\ t.actual_minutes < Get(t.estimated_minutes)

\* efficiencyBonus, unrounded, in thousandths: basePoints * 0.2 or 0.
EfficiencyBonusMilli(t) ==
    IF EfficiencyCondition(t) THEN (BasePointsMilli(t) * 2) \div 10 ELSE 0

\* focusBonus, unrounded, in thousandths: basePoints * 0.1 or 0.
FocusBonusMilli(t, ctx) ==
    IF ctx.taskTypesWorkedToday >= 3 THEN BasePointsMilli(t) \div 10 ELSE 0

\* Faulty variant: basePoints cut, not rounded, to one decimal.
BasePointsTruncated(t) == BasePointsMilli(t) \div 100

\* Math.round(basePoints * 10) / 10, in tenths.
BasePointsDisplay(t) ==
    IF <<DIFFICULTY_MULTIPLIERS[t.difficulty], t.progress>> \in DoubleBelowHalf
    THEN BasePointsMilli(t) \div 100
    ELSE MathRound(BasePointsMilli(t), 100)

\* Math.round(x * 10) / 10 of a bonus, in tenths.
BonusDisplay(milli) == MathRound(milli, 100)

\* Faulty variant: the total rounded from the one-decimal fields (round, then sum).
TotalPointsOfDisplay(t, ctx) ==
    MathRound(BasePointsDisplay(t) + BonusDisplay(EfficiencyBonusMilli(t))
                  + BonusDisplay(FocusBonusMilli(t, ctx)), 10)

\* Math.round(basePoints + efficiencyBonus + focusBonus)
TotalPoints(t, ctx) ==
    MathRound(BasePointsMilli(t) + EfficiencyBonusMilli(t)
                  + FocusBonusMilli(t, ctx), 1000)

\* calculateTaskScore(task, context): basePoints, efficiencyBonus and focusBonus
\* are in tenths of a point, totalPoints is in points.
calculateTaskScore(t, ctx) ==
    [basePoints      |-> BasePointsDisplay(t),
     efficiencyBonus |-> BonusDisplay(EfficiencyBonusMilli(t)),
     focusBonus      |-> BonusDisplay(FocusBonusMilli(t, ctx)),
     totalPoints     |-> TotalPoints(t, ctx)]

RECURSIVE GCD(_, _)
GCD(a, b) == IF b = 0 THEN a ELSE GCD(b, a % b)

\* The double num / den of two small non-negative integers (den > 0), kept as
\* the fraction in lowest terms: two such quotients are the same double exactly
\* when they are the same fraction.
Quotient(num, den) ==
    LET g == GCD(num, den) IN [num |-> num \div g, den |-> den \div g]

\* calculateEfficiency(task)
calculateEfficiency(t) ==
    IF ~Truthy(t.estimated_minutes) \/ t.actual_minutes = 0
    THEN Quotient(1, 1)
    ELSE Quotient(Get(t.estimated_minutes), t.actual_minutes)

------------------------------------------------------------------------------
(* The scoring functions applied to every valid task *)

MinuteValues == (0 .. MaxMinutes) \cup {45, 60}

NoDate == None

ScoreTasks ==
    [difficulty        : Difficulty,
     progress          : 0 .. MaxProgress,
     estimated_minutes : {None} \cup {Some(m) : m \in MinuteValues},
     max_minutes       : {None},
     actual_minutes    : MinuteValues,
     due_date          : {NoDate},
     updated_at        : {NoDate}]

ScoringContexts == [taskTypesWorkedToday : 0 .. MaxTaskTypes]

\* The variables of the concurrent calls, the daily score and the time entries
\* at rest.
ConcIdle == calls = <<>> /\ tasks0 = <<>>

DailyIdle == completedTasks = <<>> /\ dailyScore = None

TimeIdle == entries = <<>> /\ starts = <<>>

CallIdle == params = None /\ thrown = None

ExtIdle == ConcIdle /\ DailyIdle /\ CallIdle /\ TimeIdle

\* The scoring and priority functions at rest.
FnIdle ==
    /\ task = None
    /\ context = None
    /\ today = None
    /\ score = None
    /\ efficiency = None
    /\ priority = None

\* The table is not used by the scoring and priority functions.
StoreIdle ==
    /\ tasks = <<>>
    /\ clock = 0
    /\ returned = None
    /\ lastCall = "none"
    /\ trip = <<>>

InitScore ==
    /\ task \in ScoreTasks
    /\ context \in ScoringContexts
    /\ today = NoDate
    /\ score = None
    /\ efficiency = None
    /\ priority = None
    /\ StoreIdle
    /\ ExtIdle

CalculateTaskScore ==
    /\ score = None
    /\ score' = Some(calculateTaskScore(task, context))
    /\ UNCHANGED <<task, context, today, efficiency, priority, storeVars, extVars>>

CalculateEfficiency ==
    /\ efficiency = None
    /\ efficiency' = Some(calculateEfficiency(task))
    /\ UNCHANGED <<task, context, today, score, priority, storeVars, extVars>>

NextScore == CalculateTaskScore \/ CalculateEfficiency

SpecScore == InitScore /\ [][NextScore]_vars

------------------------------------------------------------------------------
(* planning/assign.ts: calculatePriority *)

\* 1000 * 60 * 60 * 24 milliseconds
MsPerDay == 1000 * 60 * 60 * 24

\* A Date is [day, ms] with getTime() = day * MsPerDay + ms and
\* 0 <= ms < MsPerDay; the split keeps the arithmetic within TLC's integers.
\* Math.ceil((a.getTime() - b.getTime()) / (1000 * 60 * 60 * 24))
CeilDays(a, b) == (a.day - b.day) + MathCeil(a.ms - b.ms, MsPerDay)

\* Faulty variant: the days rounded down.
DueDateScoreFloor(t, now) ==
    IF t.due_date # None
    THEN LET daysUntilDue == CeilDays(Get(t.due_date), now)
                                 - (IF Get(t.due_date).ms = now.ms THEN 0 ELSE 1)
         IN  IF daysUntilDue <= 0 THEN 40
             ELSE IF daysUntilDue = 1 THEN 35
             ELSE IF daysUntilDue <= 7 THEN 25
             ELSE IF daysUntilDue <= 30 THEN 10
             ELSE 0
    ELSE 0

\* Due date urgency
DueDateScore(t, now) ==
    IF t.due_date # None
    THEN LET daysUntilDue == CeilDays(Get(t.due_date), now)
         IN  IF daysUntilDue <= 0 THEN 40
             ELSE IF daysUntilDue = 1 THEN 35
             ELSE IF daysUntilDue <= 7 THEN 25
             ELSE IF daysUntilDue <= 30 THEN 10
             ELSE 0
    ELSE 0

\* Near completion
CompletionScore(t) ==
    IF t.progress >= 80 THEN 30
    ELSE IF t.progress >= 50 THEN 15
    ELSE 0

\* Faulty variant: the bands strict (< 0.2, < 0.5), as the code's comments word them.
TimeConstraintScoreStrict(t) ==
    IF Truthy(t.max_minutes) /\ t.actual_minutes # 0
    THEN LET timeRemaining == Get(t.max_minutes) - t.actual_minutes
         IN  IF 5 * timeRemaining < Get(t.max_minutes) THEN 20
             ELSE IF 2 * timeRemaining < Get(t.max_minutes) THEN 10
             ELSE 0
    ELSE 0

\* Time constraint: percentRemaining = timeRemaining / max_minutes is
\* compared with 0.2 and 0.5; max_minutes > 0 here, so
\* percentRemaining <= 0.2 is 5 * timeRemaining <= max_minutes.
TimeConstraintScore(t) ==
    IF Truthy(t.max_minutes) /\ t.actual_minutes # 0
    THEN LET timeRemaining == Get(t.max_minutes) - t.actual_minutes
         IN  IF 5 * timeRemaining <= Get(t.max_minutes) THEN 20
             ELSE IF 2 * timeRemaining <= Get(t.max_minutes) THEN 10
             ELSE 0
    ELSE 0

\* Neglect
NeglectScore(t, now) ==
    IF t.updated_at # None
    THEN LET daysSinceUpdate == CeilDays(now, Get(t.updated_at))
         IN  IF daysSinceUpdate >= 7 THEN 10
             ELSE IF daysSinceUpdate >= 3 THEN 5
             ELSE 0
    ELSE 0

\* calculatePriority(task, today)
calculatePriority(t, now) ==
    DueDateScore(t, now) + CompletionScore(t) + TimeConstraintScore(t)
        + NeglectScore(t, now)

------------------------------------------------------------------------------
(* calculatePriority applied to tasks around every band's edges *)

\* max_minutes ranges over 0..MaxBudget, actual_minutes over 0..MaxBudget + 1
MaxBudget == 5

PriorityToday == [day |-> 0, ms |-> 1]

\* Instants just before, at and just after today's time of day.
NearMs == {0, 1, 2}

DueDates == [day : {-1, 0, 1, 2, 7, 8, 30, 31}, ms : NearMs]

UpdateDates == [day : {0, -1, -2, -3, -6, -7, -10}, ms : NearMs]

PriorityTasks ==
    [difficulty        : {"MEDIUM"},
     progress          : {0, 49, 50, 79, 80, 85, 100},
     estimated_minutes : {None},
     max_minutes       : {None} \cup {Some(m) : m \in 0 .. MaxBudget},
     actual_minutes    : 0 .. MaxBudget + 1,
     due_date          : {NoDate} \cup {Some(d) : d \in DueDates},
     updated_at        : {NoDate} \cup {Some(d) : d \in UpdateDates}]

InitPriority ==
    /\ task \in PriorityTasks
    /\ context = [taskTypesWorkedToday |-> 0]
    /\ today = Some(PriorityToday)
    /\ score = None
    /\ efficiency = None
    /\ priority = None
    /\ StoreIdle
    /\ ExtIdle

CalculatePriority ==
    /\ priority = None
    /\ priority' = Some(calculatePriority(task, Get(today)))
    /\ UNCHANGED <<task, context, today, score, efficiency, storeVars, extVars>>

NextPriority == CalculatePriority

SpecPriority == InitPriority /\ [][NextPriority]_vars

------------------------------------------------------------------------------
(* planning/assign.ts: assignToDay, unassignTask, rescheduleTask *)

\* the clock advances at most to MaxClock
MaxClock == 2

\* Two rows: the one a call names and a bystander.
TaskIds == {"t1", "t2"}

\* An id no row has.
MissingId == "t0"

CallIds == TaskIds \cup {MissingId}

\* Dates (YYYY-MM-DD) a task is planned for.
Dates == {"2026-01-05", "2026-01-06"}

\* The statuses the source names.
TaskStatus == {"BACKLOG", "PLANNED", "COMPLETED", "ARCHIVED"}

\* Faulty variant: the status forced to PLANNED whatever it was.
AssignUpdateAlwaysPlanned(store, taskId, date, now) ==
    [id \in DOMAIN store |->
        IF id = taskId
        THEN [store[id] EXCEPT !.planned_for_date = Some(date),
                               !.status = "PLANNED",
                               !.updated_at = now]
        ELSE store[id]]

\* UPDATE tasks SET planned_for_date = ?, status = CASE WHEN status = 'BACKLOG'
\* THEN 'PLANNED' ELSE status END, updated_at = ? WHERE id = ?
AssignUpdate(store, taskId, date, now) ==
    [id \in DOMAIN store |->
        IF id = taskId
        THEN [store[id] EXCEPT !.planned_for_date = Some(date),
                               !.status = IF @ = "BACKLOG" THEN "PLANNED" ELSE @,
                               !.updated_at = now]
        ELSE store[id]]

\* Faulty variant: the date cleared and the status left as it is.
UnassignUpdateKeepsStatus(store, taskId, now) ==
    [id \in DOMAIN store |->
        IF id = taskId
        THEN [store[id] EXCEPT !.planned_for_date = None,
                               !.updated_at = now]
        ELSE store[id]]

\* UPDATE tasks SET planned_for_date = NULL, status = CASE WHEN status =
\* 'PLANNED' THEN 'BACKLOG' ELSE status END, updated_at = ? WHERE id = ?
UnassignUpdate(store, taskId, now) ==
    [id \in DOMAIN store |->
        IF id = taskId
        THEN [store[id] EXCEPT !.planned_for_date = None,
                               !.status = IF @ = "PLANNED" THEN "BACKLOG" ELSE @,
                               !.updated_at = now]
        ELSE store[id]]

\* const [task] = SELECT * FROM tasks WHERE id = ?
SelectById(store, taskId) ==
    IF taskId \in DOMAIN store THEN Some(store[taskId]) ELSE None

\* History for the assign / unassign round trip of one task.  A trip opens when
\* assignToDay is called on a row with status BACKLOG and no planned date (the
\* row is kept in "before"), stays open over rescheduleTask calls, and closes
\* with unassignTask; any other call on the task ends it.
NoTrip == [phase |-> "idle", rescheduled |-> FALSE, before |-> None]

TripAfterAssign(row) ==
    IF row.status = "BACKLOG" /\ row.planned_for_date = None
    THEN [phase |-> "open", rescheduled |-> FALSE, before |-> Some(row)]
    ELSE NoTrip

TripAfterReschedule(t) ==
    IF t.phase = "open" THEN [t EXCEPT !.rescheduled = TRUE] ELSE NoTrip

TripAfterUnassign(t) ==
    IF t.phase = "open" THEN [t EXCEPT !.phase = "closed"] ELSE NoTrip

\* assignToDay(db, taskId, date): the UPDATE, then the SELECT it returns.
AssignToDay(taskId, date) ==
    /\ tasks' = AssignUpdate(tasks, taskId, date, clock)
    /\ returned' = SelectById(tasks', taskId)
    /\ lastCall' = "assignToDay"
    /\ trip' = [id \in DOMAIN trip |->
                   IF id = taskId THEN TripAfterAssign(tasks[id]) ELSE trip[id]]
    /\ UNCHANGED <<clock, fnVars, extVars>>

\* unassignTask(db, taskId)
UnassignTask(taskId) ==
    /\ tasks' = UnassignUpdate(tasks, taskId, clock)
    /\ returned' = SelectById(tasks', taskId)
    /\ lastCall' = "unassignTask"
    /\ trip' = [id \in DOMAIN trip |->
                   IF id = taskId THEN TripAfterUnassign(trip[id]) ELSE trip[id]]
    /\ UNCHANGED <<clock, fnVars, extVars>>

\* rescheduleTask(db, taskId, newDate): return assignToDay(db, taskId, newDate)
RescheduleTask(taskId, newDate) ==
    /\ tasks' = AssignUpdate(tasks, taskId, newDate, clock)
    /\ returned' = SelectById(tasks', taskId)
    /\ lastCall' = "rescheduleTask"
    /\ trip' = [id \in DOMAIN trip |->
                   IF id = taskId THEN TripAfterReschedule(trip[id]) ELSE trip[id]]
    /\ UNCHANGED <<clock, fnVars, extVars>>

\* Time passes between two calls.
Tick ==
    /\ clock < MaxClock
    /\ clock' = clock + 1
    /\ UNCHANGED <<tasks, returned, lastCall, trip, fnVars, extVars>>

\* The rows the table can hold before the planning calls: any status with any
\* planned date (createTask takes a plannedForDate, updateTask sets both).
TaskRows(id) ==
    [id               : {id},
     status           : TaskStatus,
     planned_for_date : {None} \cup {Some(d) : d \in Dates},
     progress         : {0},
     deleted          : {FALSE},
     updated_at       : {0}]

Init ==
    /\ tasks \in [TaskIds -> UNION {TaskRows(id) : id \in TaskIds}]
    /\ \A id \in TaskIds : tasks[id].id = id
    /\ clock = 0
    /\ returned = None
    /\ lastCall = "none"
    /\ trip = [id \in TaskIds |-> NoTrip]
    /\ task = None
    /\ context = None
    /\ today = NoDate
    /\ score = None
    /\ efficiency = None
    /\ priority = None
    /\ ExtIdle

Next ==
    \/ Tick
    \/ \E id \in CallIds, d \in Dates : AssignToDay(id, d)
    \/ \E id \in CallIds : UnassignTask(id)
    \/ \E id \in CallIds, d \in Dates : RescheduleTask(id, d)

Spec == Init /\ [][Next]_vars

------------------------------------------------------------------------------
(* planning/assign.ts: two callers on one task, their statements interleaved *)

Callers == {"a", "b"}

\* The task both callers name.
SharedTask == "t1"

NoCall == [op |-> "none", date |-> None, now |-> 0, pc |-> "idle",
           result |-> None]

\* The UPDATE a call issues.
CallUpdate(store, c) ==
    IF c.op = "assignToDay"
    THEN AssignUpdate(store, SharedTask, Get(c.date), c.now)
    ELSE UnassignUpdate(store, SharedTask, c.now)

\* assignToDay(db, taskId, date) up to its first await: now is read and the
\* UPDATE is handed to the database.
CallAssignToDay(c, date) ==
    /\ calls[c].pc = "idle"
    /\ calls' = [calls EXCEPT ![c] = [op |-> "assignToDay", date |-> Some(date),
                                      now |-> clock, pc |-> "update",
                                      result |-> None]]
    /\ UNCHANGED <<tasks, clock, returned, lastCall, trip, tasks0, fnVars,
                   dailyVars, callVars, timeVars>>

\* unassignTask(db, taskId) up to its first await.
CallUnassignTask(c) ==
    /\ calls[c].pc = "idle"
    /\ calls' = [calls EXCEPT ![c] = [op |-> "unassignTask", date |-> None,
                                      now |-> clock, pc |-> "update",
                                      result |-> None]]
    /\ UNCHANGED <<tasks, clock, returned, lastCall, trip, tasks0, fnVars,
                   dailyVars, callVars, timeVars>>

\* await db.raw(`UPDATE tasks ...`): the database runs the statement.
RunUpdate(c) ==
    /\ calls[c].pc = "update"
    /\ tasks' = CallUpdate(tasks, calls[c])
    /\ calls' = [calls EXCEPT ![c].pc = "select"]
    /\ UNCHANGED <<clock, returned, lastCall, trip, tasks0, fnVars,
                   dailyVars, callVars, timeVars>>

\* const [task] = await db.raw('SELECT ...'); return task
RunSelect(c) ==
    /\ calls[c].pc = "select"
    /\ calls' = [calls EXCEPT ![c].pc = "done",
                              ![c].result = SelectById(tasks, SharedTask)]
    /\ UNCHANGED <<tasks, clock, returned, lastCall, trip, tasks0, fnVars,
                   dailyVars, callVars, timeVars>>

TickConc ==
    /\ clock < MaxClock
    /\ clock' = clock + 1
    /\ UNCHANGED <<tasks, returned, lastCall, trip, concVars, fnVars,
                   dailyVars, callVars, timeVars>>

InitConc ==
    /\ tasks \in [TaskIds -> UNION {TaskRows(id) : id \in TaskIds}]
    /\ \A id \in TaskIds : tasks[id].id = id
    /\ tasks0 = tasks
    /\ calls = [c \in Callers |-> NoCall]
    /\ clock = 0
    /\ returned = None
    /\ lastCall = "none"
    /\ trip = <<>>
    /\ FnIdle
    /\ DailyIdle
    /\ CallIdle
    /\ TimeIdle

NextConc ==
    \/ TickConc
    \/ \E c \in Callers, d \in Dates : CallAssignToDay(c, d)
    \/ \E c \in Callers : CallUnassignTask(c)
    \/ \E c \in Callers : RunUpdate(c)
    \/ \E c \in Callers : RunSelect(c)

SpecConc == InitConc /\ [][NextConc]_vars

------------------------------------------------------------------------------
(* scoring/calculate.ts: calculateDailyScore *)

MaxCompleted == 3

\* Faulty variant: each task's points cut, not rounded, before they are added.
DailyReducerTruncating(total, t, ctx) ==
    total + (BasePointsMilli(t) + EfficiencyBonusMilli(t)
                 + FocusBonusMilli(t, ctx)) \div 1000

\* (total, task) => total + calculateTaskScore(task, context).totalPoints
DailyReducer(total, t, ctx) == total + calculateTaskScore(t, ctx).totalPoints

\* completedTasks.reduce(callback, total) from element i on, left to right.
RECURSIVE Reduce(_, _, _, _)
Reduce(ts, ctx, i, total) ==
    IF i > Len(ts) THEN total
    ELSE Reduce(ts, ctx, i + 1, DailyReducer(total, ts[i], ctx))

\* calculateDailyScore(completedTasks, context)
calculateDailyScore(ts, ctx) == Reduce(ts, ctx, 1, 0)

\* Completed and part-done tasks whose points are whole, round up and round
\* down.
DailyTasks ==
    {t \in ScoreTasks :
        /\ <<t.difficulty, t.progress>> \in
               {<<"TRIVIAL", 50>>, <<"TRIVIAL", 40>>, <<"MEDIUM", 35>>,
                <<"HARD", 100>>, <<"EASY", 0>>}
        /\ t.estimated_minutes = Some(2)
        /\ t.actual_minutes = 1}

InitDaily ==
    /\ completedTasks \in UNION {[1 .. n -> DailyTasks] : n \in 0 .. MaxCompleted}
    /\ context \in ScoringContexts
    /\ dailyScore = None
    /\ task = None
    /\ today = None
    /\ score = None
    /\ efficiency = None
    /\ priority = None
    /\ StoreIdle
    /\ ConcIdle
    /\ CallIdle
    /\ TimeIdle

CalculateDailyScore ==
    /\ dailyScore = None
    /\ dailyScore' = Some(calculateDailyScore(completedTasks, context))
    /\ UNCHANGED <<completedTasks, fnVars, storeVars, concVars, callVars, timeVars>>

NextDaily == CalculateDailyScore

SpecDaily == InitDaily /\ [][NextDaily]_vars

------------------------------------------------------------------------------
(* tasks/create.ts: validateCreateTask, createTask *)

\* A string is kept as the length of its trimmed content (core) and the number
\* of whitespace characters around it (pad): length and trim() are exact, the
\* characters themselves are left out.
Str(pad, core) == [pad |-> pad, core |-> core]

\* s.length
Length(s) == s.pad + s.core

\* s.trim()
Trim(s) == [pad |-> 0, core |-> s.core]

\* A string in a condition: the empty string is falsy.
TruthyString(s) == Length(s) # 0

\* s || null
OrNull(s) == IF TruthyString(s) THEN Some(s) ELSE None

\* 'Task title must be under 200 characters'
MaxTitleLength == 200

\* 'Description must be under 5000 characters'
MaxDescriptionLength == 5000

\* A Date is a day and a time of day; toISOString() is the day, 'T' and the
\* time, kept as the two parts.
toISOString(d) == [day |-> d.day, time |-> d.time]

\* iso.split('T')[0]: the day alone.
SplitDay(iso) == [day |-> iso.day, time |-> ""]

\* Progress is kept in halves of a percent, so that the number 50.5 can be an
\* argument: Pct(50) is 50, a whole number of percent is an even value.
Pct(n) == 2 * n

\* Faulty variant: the estimate is not compared with the max time.
validateCreateTaskNoExceedCheck(p, now) ==
    IF ~TruthyString(p.title) \/ Length(Trim(p.title)) = 0 THEN Some("title")
    ELSE IF Length(p.title) > MaxTitleLength THEN Some("title")
    ELSE IF p.projectId = "" THEN Some("projectId")
    ELSE IF p.estimatedMinutes # None /\ Get(p.estimatedMinutes) < 0
         THEN Some("estimatedMinutes")
    ELSE IF p.maxMinutes # None /\ Get(p.maxMinutes) < 0 THEN Some("maxMinutes")
    ELSE IF p.dueDate # None /\ Get(p.dueDate) < now THEN Some("dueDate")
    ELSE IF /\ p.description # None
            /\ TruthyString(Get(p.description))
            /\ Length(Get(p.description)) > MaxDescriptionLength
         THEN Some("description")
    ELSE None

\* validateCreateTask(params): the field of the TaskValidationError it throws,
\* None when it returns.
validateCreateTask(p, now) ==
    IF ~TruthyString(p.title) \/ Length(Trim(p.title)) = 0 THEN Some("title")
    ELSE IF Length(p.title) > MaxTitleLength THEN Some("title")
    ELSE IF p.projectId = "" THEN Some("projectId")
    ELSE IF p.estimatedMinutes # None /\ Get(p.estimatedMinutes) < 0
         THEN Some("estimatedMinutes")
    ELSE IF p.maxMinutes # None /\ Get(p.maxMinutes) < 0 THEN Some("maxMinutes")
    ELSE IF /\ p.estimatedMinutes # None
            /\ p.maxMinutes # None
            /\ Get(p.estimatedMinutes) > Get(p.maxMinutes)
         THEN Some("estimatedMinutes")
    ELSE IF p.dueDate # None /\ Get(p.dueDate) < now THEN Some("dueDate")
    ELSE IF /\ p.description # None
            /\ TruthyString(Get(p.description))
            /\ Length(Get(p.description)) > MaxDescriptionLength
         THEN Some("description")
    ELSE None

\* The data object createTask hands to db.tasks.create; updated_at is not in
\* it and stays unset.
CreateData(taskId, userId, p) ==
    [id                |-> taskId,
     user_id           |-> userId,
     project_id        |-> p.projectId,
     parent_task_id    |-> IF p.parentTaskId # None /\ Get(p.parentTaskId) # ""
                           THEN p.parentTaskId ELSE None,
     title             |-> Trim(p.title),
     description       |-> IF p.description = None THEN None
                           ELSE OrNull(Trim(Get(p.description))),
     difficulty        |-> IF p.difficulty # None THEN Get(p.difficulty)
                           ELSE "MEDIUM",
     progress          |-> Pct(0),
     status            |-> "BACKLOG",
     estimated_minutes |-> p.estimatedMinutes,
     max_minutes       |-> p.maxMinutes,
     actual_minutes    |-> 0,
     planned_for_date  |-> IF p.plannedForDate = None THEN None
                           ELSE Some(SplitDay(toISOString(Get(p.plannedForDate)))),
     due_date          |-> p.dueDate,
     task_type_id      |-> p.taskTypeId,
     completed_at      |-> None,
     deleted           |-> FALSE,
     updated_at        |-> None]

\* db.tasks.create({data}): one row more in the table.
InsertTask(store, data) ==
    [id \in DOMAIN store \cup {data.id} |->
        IF id = data.id THEN data ELSE store[id]]

UserId == "u1"

\* The ids crypto.randomUUID() can return.
NewIds == {"n1", "n2"}

\* createTask(db, userId, params)
CreateTask(taskId) ==
    /\ params # None
    /\ Get(params).op = "createTask"
    /\ lastCall = "none"
    /\ taskId \in NewIds \ DOMAIN tasks
    /\ lastCall' = "createTask"
    /\ LET p == Get(params).args
           err == validateCreateTask(p, clock)
       IN  IF err # None
           THEN /\ thrown' = Some([name |-> "TaskValidationError", field |-> Get(err)])
                /\ UNCHANGED <<tasks, returned>>
           ELSE /\ tasks' = InsertTask(tasks, CreateData(taskId, UserId, p))
                /\ returned' = Some(CreateData(taskId, UserId, p))
                /\ thrown' = None
    /\ UNCHANGED <<clock, trip, params, fnVars, concVars, dailyVars, timeVars>>

CreateTitles ==
    {Str(0, 0), Str(1, 0), Str(0, 1), Str(1, 1), Str(0, MaxTitleLength),
     Str(1, MaxTitleLength), Str(0, MaxTitleLength + 1)}

CreateDescriptions ==
    {Str(0, 0), Str(2, 0), Str(1, 3), Str(0, MaxDescriptionLength),
     Str(1, MaxDescriptionLength), Str(0, MaxDescriptionLength + 1)}

TaskDate == [day |-> "2026-01-05", time |-> "09:30:00.000Z"]

CreateTaskParams ==
    [title            : CreateTitles,
     projectId        : {"", "p1"},
     difficulty       : {None, Some("HARD")},
     estimatedMinutes : {None} \cup {Some(m) : m \in -1 .. MaxMinutes},
     maxMinutes       : {None, Some(-1), Some(1)},
     dueDate          : {None} \cup {Some(d) : d \in 0 .. MaxClock + 1},
     parentTaskId     : {None, Some("t1")},
     taskTypeId       : {None, Some("tt1")},
     description      : {None} \cup {Some(d) : d \in CreateDescriptions},
     plannedForDate   : {None, Some(TaskDate)}]

\* The parameters of a plain, valid createTask call.
PlainParams ==
    [title |-> Str(0, 1), projectId |-> "p1", difficulty |-> None,
     estimatedMinutes |-> None, maxMinutes |-> None, dueDate |-> None,
     parentTaskId |-> None, taskTypeId |-> None, description |-> None,
     plannedForDate |-> None]

\* The table before the call: empty, or holding one task created earlier.
TablesBeforeCreate == {<<>>, InsertTask(<<>>, CreateData("t1", UserId, PlainParams))}

InitCreate ==
    /\ tasks \in TablesBeforeCreate
    /\ clock \in 1 .. MaxClock
    /\ params \in {Some([op |-> "createTask", args |-> p]) : p \in CreateTaskParams}
    /\ thrown = None
    /\ returned = None
    /\ lastCall = "none"
    /\ trip = <<>>
    /\ FnIdle
    /\ ConcIdle
    /\ DailyIdle
    /\ TimeIdle

NextCreate == \E taskId \in NewIds : CreateTask(taskId)

SpecCreate == InitCreate /\ [][NextCreate]_vars

------------------------------------------------------------------------------
(* tasks/update.ts: validateUpdateTask, updateTask *)

\* Faulty variant: a status of 'COMPLETED' overwrites the progress given with it.
UpdateRowForcingProgress(row, p, now) ==
    LET completes == p.status = Some("COMPLETED")
                         \/ (p.progress = Some(Pct(MaxProgress)) /\ p.status = None)
    IN  [row EXCEPT
            !.title = IF p.title # None THEN Trim(Get(p.title)) ELSE @,
            !.description = IF p.description # None
                            THEN OrNull(Trim(Get(p.description))) ELSE @,
            !.progress = IF p.status = Some("COMPLETED") THEN Pct(MaxProgress)
                         ELSE IF p.progress # None THEN Get(p.progress) ELSE @,
            !.status = IF p.status # None THEN Get(p.status)
                       ELSE IF completes THEN "COMPLETED" ELSE @,
            !.completed_at = IF completes THEN Some(now) ELSE @,
            !.estimated_minutes = IF p.estimatedMinutes # None
                                  THEN p.estimatedMinutes ELSE @,
            !.max_minutes = IF p.maxMinutes # None THEN p.maxMinutes ELSE @,
            !.planned_for_date =
                IF p.plannedForDate = None THEN @
                ELSE IF Get(p.plannedForDate) = None THEN None
                ELSE Some(toISOString(Get(Get(p.plannedForDate)))),
            !.due_date = IF p.dueDate # None THEN Get(p.dueDate) ELSE @,
            !.task_type_id = IF p.taskTypeId # None THEN Get(p.taskTypeId) ELSE @,
            !.updated_at = Some(now)]

\* validateUpdateTask(params): the message of the Error it throws, None when
\* it returns.
validateUpdateTask(p) ==
    IF p.title # None /\ Length(Trim(Get(p.title))) = 0
    THEN Some("Task title cannot be empty")
    ELSE IF p.title # None /\ Length(Get(p.title)) > MaxTitleLength
    THEN Some("Task title must be under 200 characters")
    ELSE IF /\ p.progress # None
            /\ (Get(p.progress) < Pct(0) \/ Get(p.progress) > Pct(MaxProgress))
    THEN Some("Progress must be between 0 and 100")
    ELSE IF /\ p.description # None
            /\ Length(Get(p.description)) > MaxDescriptionLength
    THEN Some("Description must be under 5000 characters")
    ELSE None

\* The SET list updateTask builds from params, applied to the row.
UpdateRow(row, p, now) ==
    LET \* progress === 100 && status === undefined
        autoCompleted == p.progress = Some(Pct(MaxProgress)) /\ p.status = None
        \* status === 'COMPLETED'
        completed == p.status = Some("COMPLETED")
    IN  [row EXCEPT
            !.title = IF p.title # None THEN Trim(Get(p.title)) ELSE @,
            !.description = IF p.description # None
                            THEN OrNull(Trim(Get(p.description))) ELSE @,
            !.progress = IF p.progress # None THEN Get(p.progress)
                         ELSE IF completed THEN Pct(MaxProgress) ELSE @,
            !.status = IF p.status # None THEN Get(p.status)
                       ELSE IF autoCompleted THEN "COMPLETED" ELSE @,
            !.completed_at = IF autoCompleted \/ completed THEN Some(now) ELSE @,
            !.estimated_minutes = IF p.estimatedMinutes # None
                                  THEN p.estimatedMinutes ELSE @,
            !.max_minutes = IF p.maxMinutes # None THEN p.maxMinutes ELSE @,
            !.planned_for_date =
                IF p.plannedForDate = None THEN @
                ELSE IF Get(p.plannedForDate) = None THEN None
                ELSE Some(toISOString(Get(Get(p.plannedForDate)))),
            !.due_date = IF p.dueDate # None THEN Get(p.dueDate) ELSE @,
            !.task_type_id = IF p.taskTypeId # None THEN Get(p.taskTypeId) ELSE @,
            !.updated_at = Some(now)]

\* UPDATE tasks SET ... WHERE id = ?
UpdateStore(store, taskId, p, now) ==
    [id \in DOMAIN store |->
        IF id = taskId THEN UpdateRow(store[id], p, now) ELSE store[id]]

\* No field given.
NoUpdate ==
    [title |-> None, description |-> None, progress |-> None, status |-> None,
     estimatedMinutes |-> None, maxMinutes |-> None, plannedForDate |-> None,
     dueDate |-> None, taskTypeId |-> None]

\* updateTask(db, taskId, params)
UpdateTask ==
    /\ params # None
    /\ Get(params).op = "updateTask"
    /\ lastCall = "none"
    /\ lastCall' = "updateTask"
    /\ LET taskId == Get(params).taskId
           p == Get(params).args
           err == validateUpdateTask(p)
       IN  IF err # None
           THEN /\ thrown' = Some([name |-> "Error", message |-> Get(err)])
                /\ UNCHANGED <<tasks, returned>>
           ELSE /\ tasks' = UpdateStore(tasks, taskId, p, clock)
                /\ returned' = SelectById(tasks', taskId)
                /\ thrown' = None
    /\ UNCHANGED <<clock, trip, params, fnVars, concVars, dailyVars, timeVars>>

UpdateTitles ==
    {Str(0, 0), Str(1, 0), Str(1, 2), Str(0, MaxTitleLength),
     Str(0, MaxTitleLength + 1)}

UpdateDescriptions == {Str(0, 0), Str(1, 3), Str(0, MaxDescriptionLength + 1)}

\* The numbers given as progress, in halves of a percent: -0.5, 0, 50, 50.5,
\* 100 and 100.5.
UpdateProgresses ==
    {Pct(0) - 1, Pct(0), Pct(50), Pct(50) + 1, Pct(MaxProgress),
     Pct(MaxProgress) + 1}

OtherDate == [day |-> "2026-01-06", time |-> "00:00:00.000Z"]

UpdateTaskParams ==
    [title            : {None} \cup {Some(s) : s \in UpdateTitles},
     description      : {None} \cup {Some(s) : s \in UpdateDescriptions},
     progress         : {None} \cup {Some(n) : n \in UpdateProgresses},
     status           : {None, Some("PLANNED"), Some("COMPLETED")},
     estimatedMinutes : {None, Some(MaxMinutes)},
     maxMinutes       : {None, Some(0)},
     plannedForDate   : {None, Some(None), Some(Some(OtherDate))},
     dueDate          : {None, Some(None), Some(Some(0))},
     taskTypeId       : {None, Some(None), Some(Some("tt2"))}]

\* A createTask call that sets every optional field.
FullParams ==
    [title |-> Str(0, 3), projectId |-> "p1", difficulty |-> Some("HARD"),
     estimatedMinutes |-> Some(1), maxMinutes |-> Some(1), dueDate |-> Some(1),
     parentTaskId |-> None, taskTypeId |-> Some("tt1"),
     description |-> Some(Str(0, 3)), plannedForDate |-> Some(TaskDate)]

\* The tables before the call: a task as created, a second task that is as
\* created with every field set, or completed by an earlier update.
TablesBeforeUpdate ==
    LET plain == CreateData("t2", UserId, PlainParams)
        full  == CreateData("t1", UserId, FullParams)
        two(row) == InsertTask(InsertTask(<<>>, plain), row)
    IN  {two(full),
         two(UpdateRow(full, [NoUpdate EXCEPT !.progress = Some(Pct(MaxProgress))], 0)),
         two(UpdateRow(plain, [NoUpdate EXCEPT !.status = Some("PLANNED")], 0))}

InitUpdate ==
    /\ tasks \in TablesBeforeUpdate
    /\ clock \in 1 .. MaxClock
    /\ params \in {Some([op |-> "updateTask", taskId |-> id, args |-> p]) :
                      id \in {"t1", MissingId}, p \in UpdateTaskParams}
    /\ thrown = None
    /\ returned = None
    /\ lastCall = "none"
    /\ trip = <<>>
    /\ FnIdle
    /\ ConcIdle
    /\ DailyIdle
    /\ TimeIdle

NextUpdate == UpdateTask

SpecUpdate == InitUpdate /\ [][NextUpdate]_vars

------------------------------------------------------------------------------
(* tasks/update.ts: updateTaskProgress, updateParentProgress, in sequences of
   calls on a parent task and its sub-tasks *)

ParentId == "t1"

\* SELECT progress FROM tasks WHERE parent_task_id = ? AND deleted = 0
SubTasksIncludingDeleted(store, parentTaskId) ==
    {id \in DOMAIN store : store[id].parent_task_id = Some(parentTaskId)}

SubTasks(store, parentTaskId) ==
    {id \in DOMAIN store :
        store[id].parent_task_id = Some(parentTaskId) /\ ~store[id].deleted}

\* subTasks.reduce((sum, task) => sum + task.progress, 0), in halves of a
\* percent.
RECURSIVE TotalProgress(_, _)
TotalProgress(store, ids) ==
    IF ids = {} THEN 0
    ELSE LET id == CHOOSE x \in ids : TRUE
         IN  store[id].progress + TotalProgress(store, ids \ {id})

\* Faulty variant: the deleted sub-tasks are averaged too.
updateParentProgressCountingDeleted(store, parentTaskId, now) ==
    LET subTasks == SubTasksIncludingDeleted(store, parentTaskId)
    IN  IF subTasks = {} THEN store
        ELSE LET averageProgress ==
                     MathRound(TotalProgress(store, subTasks),
                               Pct(1) * Cardinality(subTasks))
             IN  UpdateStore(store, parentTaskId,
                             [NoUpdate EXCEPT !.progress = Some(Pct(averageProgress))],
                             now)

\* updateParentProgress(db, parentTaskId): the table it leaves. The average
\* of values within 0..100 is within 0..100, so the updateTask it calls does
\* not throw.
updateParentProgress(store, parentTaskId, now) ==
    LET subTasks == SubTasks(store, parentTaskId)
    IN  IF subTasks = {} THEN store
        ELSE LET averageProgress ==
                     MathRound(TotalProgress(store, subTasks),
                               Pct(1) * Cardinality(subTasks))
             IN  UpdateStore(store, parentTaskId,
                             [NoUpdate EXCEPT !.progress = Some(Pct(averageProgress))],
                             now)

\* createTask(db, userId, params), one call of a sequence. The sequences keep
\* the table, the call made and whether it threw; the task handed back is the
\* row of the table and is left out.
TasksCreate(taskId, p) ==
    /\ taskId \in NewIds \ DOMAIN tasks
    /\ lastCall' = "createTask"
    /\ LET err == validateCreateTask(p, clock)
       IN  IF err # None
           THEN /\ thrown' = Some("TaskValidationError")
                /\ UNCHANGED tasks
           ELSE /\ tasks' = InsertTask(tasks, CreateData(taskId, UserId, p))
                /\ thrown' = None
    /\ UNCHANGED <<clock, returned, trip, params, fnVars, concVars, dailyVars,
                   timeVars>>

\* updateTask(db, taskId, params), one call of a sequence.
TasksUpdate(taskId, p) ==
    /\ lastCall' = "updateTask"
    /\ LET err == validateUpdateTask(p)
       IN  IF err # None
           THEN /\ thrown' = Some("Error")
                /\ UNCHANGED tasks
           ELSE /\ tasks' = UpdateStore(tasks, taskId, p, clock)
                /\ thrown' = None
    /\ UNCHANGED <<clock, returned, trip, params, fnVars, concVars, dailyVars,
                   timeVars>>

\* updateTaskProgress(db, taskId, progress)
UpdateTaskProgress(taskId, progress) ==
    /\ lastCall' = "updateTaskProgress"
    /\ LET p == [NoUpdate EXCEPT !.progress = Some(progress)]
           updated == UpdateStore(tasks, taskId, p, clock)
           t == SelectById(updated, taskId)
       IN  IF validateUpdateTask(p) # None
           THEN /\ thrown' = Some("Error")
                /\ UNCHANGED tasks
           ELSE IF t = None
           THEN \* task is undefined: reading task.parent_task_id throws
                /\ thrown' = Some("TypeError")
                /\ tasks' = updated
           ELSE /\ tasks' = (IF Get(t).parent_task_id # None
                             THEN updateParentProgress(
                                      updated, Get(Get(t).parent_task_id), clock)
                             ELSE updated)
                /\ thrown' = None
    /\ UNCHANGED <<clock, returned, trip, params, fnVars, concVars, dailyVars,
                   timeVars>>

\* updateParentProgress(db, parentTaskId), called on its own.
UpdateParentProgress(parentTaskId) ==
    /\ lastCall' = "updateParentProgress"
    /\ tasks' = updateParentProgress(tasks, parentTaskId, clock)
    /\ thrown' = None
    /\ UNCHANGED <<clock, returned, trip, params, fnVars, concVars, dailyVars,
                   timeVars>>

\* A sub-task of the parent task.
SubParams == [PlainParams EXCEPT !.parentTaskId = Some(ParentId)]

\* The numbers given as progress in the sequences, in halves of a percent:
\* 50, 50.5 and 100, and 100.5, which is rejected.
SequenceProgresses ==
    {Pct(50), Pct(50) + 1, Pct(MaxProgress), Pct(MaxProgress) + 1}

SequenceUpdates ==
    {[NoUpdate EXCEPT !.progress = pr, !.status = st] :
        pr \in {None} \cup {Some(n) : n \in SequenceProgresses},
        st \in {None, Some("COMPLETED")}}

\* The parent task as created, with a sub-task that was deleted in the store.
TablesBeforeSequence ==
    LET parent == CreateData(ParentId, UserId, PlainParams)
        gone   == [CreateData("t2", UserId, SubParams) EXCEPT !.deleted = TRUE]
    IN  {InsertTask(InsertTask(<<>>, parent), gone)}

InitTasks ==
    /\ tasks \in TablesBeforeSequence
    /\ clock = 1
    /\ params = None
    /\ thrown = None
    /\ returned = None
    /\ lastCall = "none"
    /\ trip = <<>>
    /\ FnIdle
    /\ ConcIdle
    /\ DailyIdle
    /\ TimeIdle

NextTasks ==
    \/ \E taskId \in NewIds : TasksCreate(taskId, SubParams)
    \/ \E taskId \in DOMAIN tasks, p \in SequenceUpdates : TasksUpdate(taskId, p)
    \/ \E taskId \in DOMAIN tasks \cup {MissingId}, pr \in SequenceProgresses :
           UpdateTaskProgress(taskId, pr)
    \/ \E taskId \in DOMAIN tasks : UpdateParentProgress(taskId)

SpecTasks == InitTasks /\ [][NextTasks]_vars

------------------------------------------------------------------------------
(* services/time-entry.service.ts: TimeEntryService. The repositories
   timeEntryRepo and taskRepo are the external store; they are modelled by
   what their names and their use in the service say. *)

Users == {"u1", "u2"}

\* The ids the store gives to new time entries.
EntryIds == {"e1", "e2"}

MissingEntry == "e0"

\* timeEntryRepo.findActive(db, userId): an entry of the user that has not
\* ended, null when there is none.
findActive(es, userId) ==
    LET active == {id \in DOMAIN es : es[id].userId = userId /\ es[id].endedAt = None}
    IN  IF active = {} THEN None ELSE Some(es[CHOOSE id \in active : TRUE])

\* timeEntryRepo.findById(db, entryId)
findEntryById(es, entryId) ==
    IF entryId \in DOMAIN es THEN Some(es[entryId]) ELSE None

\* taskRepo.findById(db, taskId)
findTaskById(ts, taskId) ==
    IF taskId \in DOMAIN ts THEN Some(ts[taskId]) ELSE None

\* timeEntryRepo.create(db, data)
createEntry(es, entryId, data) ==
    [id \in DOMAIN es \cup {entryId} |->
        IF id = entryId
        THEN [id |-> entryId, taskId |-> data.taskId, userId |-> data.userId,
              startedAt |-> data.startedAt, endedAt |-> data.endedAt]
        ELSE es[id]]

\* timeEntryRepo.stop(db, entryId, endedAt)
stopEntry(es, entryId, endedAt) == [es EXCEPT ![entryId].endedAt = Some(endedAt)]

\* timeEntryRepo.delete(db, entryId)
deleteEntry(es, entryId) == [id \in DOMAIN es \ {entryId} |-> es[id]]

\* timeEntryRepo.calculateTotalMinutes(db, taskId): the minutes between start
\* and end, added over the ended entries of the task.
RECURSIVE MinutesOf(_, _)
MinutesOf(es, ids) ==
    IF ids = {} THEN 0
    ELSE LET id == CHOOSE x \in ids : TRUE
         IN  (Get(es[id].endedAt) - es[id].startedAt) + MinutesOf(es, ids \ {id})

calculateTotalMinutes(es, taskId) ==
    MinutesOf(es, {id \in DOMAIN es : es[id].taskId = taskId /\ es[id].endedAt # None})

\* taskRepo.update(db, taskId, { actualMinutes })
updateActualMinutes(ts, taskId, totalMinutes) ==
    [id \in DOMAIN ts |->
        IF id = taskId THEN [ts[id] EXCEPT !.actualMinutes = totalMinutes] ELSE ts[id]]

\* Faulty variant: start does not look for an active entry of the user.
StartErrorIgnoringActive(es, ts, p) ==
    IF findTaskById(ts, p.taskId) = None THEN Some("Task not found") ELSE None

\* The Error start throws before it creates anything, None when it goes on.
StartError(es, ts, p) ==
    IF findActive(es, p.userId) # None
    THEN Some("User already has an active time entry. Stop the current timer first.")
    ELSE IF findTaskById(ts, p.taskId) = None THEN Some("Task not found")
    ELSE None

\* The data start hands to timeEntryRepo.create.
StartData(p, now) ==
    [taskId |-> p.taskId, userId |-> p.userId,
     startedAt |-> IF Truthy(p.startedAt) THEN Get(p.startedAt) ELSE now,
     endedAt |-> None]

\* The Error stop throws before it changes anything, None when it goes on.
StopError(es, entryId) ==
    IF findEntryById(es, entryId) = None THEN Some("Time entry not found")
    ELSE IF Get(findEntryById(es, entryId)).endedAt # None
    THEN Some("Time entry is already stopped")
    ELSE None

\* Faulty variant: the total is computed before the entry is stopped.
StoppedTotalBefore(es, ts, entryId, endedAt) ==
    LET taskId == es[entryId].taskId
        stopped == stopEntry(es, entryId, endedAt)
    IN  [entries |-> stopped,
         tasks |-> updateActualMinutes(ts, taskId, calculateTotalMinutes(es, taskId))]

\* stop from timeEntryRepo.stop on: the entries and the tasks it leaves.
Stopped(es, ts, entryId, endedAt) ==
    LET taskId == es[entryId].taskId
        stopped == stopEntry(es, entryId, endedAt)
    IN  [entries |-> stopped,
         tasks |-> updateActualMinutes(ts, taskId,
                                       calculateTotalMinutes(stopped, taskId))]

\* delete from timeEntryRepo.delete on.
Deleted(es, ts, entryId) ==
    LET taskId == es[entryId].taskId
        rest == deleteEntry(es, entryId)
    IN  [entries |-> rest,
         tasks |-> updateActualMinutes(ts, taskId, calculateTotalMinutes(rest, taskId))]

\* start(db, params), run without interruption.
Start(entryId, p) ==
    /\ lastCall' = "start"
    /\ LET err == StartError(entries, tasks, p)
       IN  IF err # None
           THEN /\ thrown' = err
                /\ UNCHANGED entries
           ELSE /\ entryId \in EntryIds \ DOMAIN entries
                /\ thrown' = None
                /\ entries' = createEntry(entries, entryId, StartData(p, clock))
    /\ UNCHANGED <<tasks, clock, returned, trip, params, starts, fnVars, concVars,
                   dailyVars>>

\* stop(db, entryId)
Stop(entryId) ==
    /\ lastCall' = "stop"
    /\ LET err == StopError(entries, entryId)
           after == Stopped(entries, tasks, entryId, clock)
       IN  IF err # None
           THEN /\ thrown' = err
                /\ UNCHANGED <<entries, tasks>>
           ELSE /\ thrown' = None
                /\ entries' = after.entries
                /\ tasks' = after.tasks
    /\ UNCHANGED <<clock, returned, trip, params, starts, fnVars, concVars, dailyVars>>

\* stopActive(db, userId)
StopActive(userId) ==
    /\ lastCall' = "stopActive"
    /\ thrown' = None
    /\ LET activeEntry == findActive(entries, userId)
           after == Stopped(entries, tasks, Get(activeEntry).id, clock)
       IN  IF activeEntry = None
           THEN UNCHANGED <<entries, tasks>>
           ELSE /\ entries' = after.entries
                /\ tasks' = after.tasks
    /\ UNCHANGED <<clock, returned, trip, params, starts, fnVars, concVars, dailyVars>>

\* delete(db, entryId)
Delete(entryId) ==
    /\ lastCall' = "delete"
    /\ LET after == Deleted(entries, tasks, entryId)
       IN  IF findEntryById(entries, entryId) = None
           THEN /\ thrown' = Some("Time entry not found")
                /\ UNCHANGED <<entries, tasks>>
           ELSE /\ thrown' = None
                /\ entries' = after.entries
                /\ tasks' = after.tasks
    /\ UNCHANGED <<clock, returned, trip, params, starts, fnVars, concVars, dailyVars>>

TickTime ==
    /\ clock < MaxClock
    /\ clock' = clock + 1
    /\ UNCHANGED <<tasks, entries, returned, lastCall, trip, callVars, starts,
                   fnVars, concVars, dailyVars>>

StartTimeEntryParams ==
    [taskId : TaskIds \cup {MissingId}, userId : Users, startedAt : {None}]

\* The tasks the time entries are for, with no time tracked yet.
TimedTasks == [id \in TaskIds |-> [id |-> id, actualMinutes |-> 0]]

InitTime ==
    /\ tasks = TimedTasks
    /\ entries = <<>>
    /\ starts = <<>>
    /\ clock = 0
    /\ returned = None
    /\ lastCall = "none"
    /\ trip = <<>>
    /\ CallIdle
    /\ FnIdle
    /\ ConcIdle
    /\ DailyIdle

NextTime ==
    \/ TickTime
    \/ \E entryId \in EntryIds, p \in StartTimeEntryParams : Start(entryId, p)
    \/ \E entryId \in EntryIds \cup {MissingEntry} : Stop(entryId)
    \/ \E userId \in Users : StopActive(userId)
    \/ \E entryId \in EntryIds \cup {MissingEntry} : Delete(entryId)

SpecTime == InitTime /\ [][NextTime]_vars

------------------------------------------------------------------------------
(* TimeEntryService.start called by two callers, interleaved at its awaits *)

NoStart == [p |-> None, pc |-> "idle", thrown |-> None]

\* start(db, params) is called: the first await, timeEntryRepo.findActive, is
\* pending.
StartCalled(c, p) ==
    /\ starts[c].pc = "idle"
    /\ starts' = [starts EXCEPT ![c] = [p |-> Some(p), pc |-> "findActive",
                                        thrown |-> None]]
    /\ UNCHANGED <<tasks, entries, clock, returned, lastCall, trip, callVars,
                   fnVars, concVars, dailyVars>>

\* const activeEntry = await timeEntryRepo.findActive(...); if (activeEntry) throw
StartFindActive(c) ==
    /\ starts[c].pc = "findActive"
    /\ starts' = IF findActive(entries, Get(starts[c].p).userId) # None
                 THEN [starts EXCEPT ![c].pc = "thrown",
                                     ![c].thrown = Some("User already has an active time entry. Stop the current timer first.")]
                 ELSE [starts EXCEPT ![c].pc = "findById"]
    /\ UNCHANGED <<tasks, entries, clock, returned, lastCall, trip, callVars,
                   fnVars, concVars, dailyVars>>

\* const task = await taskRepo.findById(...); if (!task) throw
StartFindById(c) ==
    /\ starts[c].pc = "findById"
    /\ starts' = IF findTaskById(tasks, Get(starts[c].p).taskId) = None
                 THEN [starts EXCEPT ![c].pc = "thrown",
                                     ![c].thrown = Some("Task not found")]
                 ELSE [starts EXCEPT ![c].pc = "create"]
    /\ UNCHANGED <<tasks, entries, clock, returned, lastCall, trip, callVars,
                   fnVars, concVars, dailyVars>>

\* const entry = await timeEntryRepo.create(...); return entry
StartCreate(c, entryId) ==
    /\ starts[c].pc = "create"
    /\ entryId \in EntryIds \ DOMAIN entries
    /\ entries' = createEntry(entries, entryId, StartData(Get(starts[c].p), clock))
    /\ starts' = [starts EXCEPT ![c].pc = "done"]
    /\ UNCHANGED <<tasks, clock, returned, lastCall, trip, callVars, fnVars,
                   concVars, dailyVars>>

InitTimeConc ==
    /\ tasks = TimedTasks
    /\ entries = <<>>
    /\ starts = [c \in Callers |-> NoStart]
    /\ clock = 0
    /\ returned = None
    /\ lastCall = "none"
    /\ trip = <<>>
    /\ CallIdle
    /\ FnIdle
    /\ ConcIdle
    /\ DailyIdle

NextTimeConc ==
    \/ TickTime
    \/ \E c \in Callers, p \in StartTimeEntryParams : StartCalled(c, p)
    \/ \E c \in Callers : StartFindActive(c)
    \/ \E c \in Callers : StartFindById(c)
    \/ \E c \in Callers, entryId \in EntryIds : StartCreate(c, entryId)

SpecTimeConc == InitTimeConc /\ [][NextTimeConc]_vars

------------------------------------------------------------------------------
(* planning/assign.ts on the rows tasks/create.ts writes: createTask,
   assignToDay, unassignTask and rescheduleTask in sequences, and the two
   queries getBacklogTasks and getTasksForDay *)

\* The string 'YYYY-MM-DD' of a day, as the planning calls take it.
DayString(d) == [day |-> d, time |-> ""]

\* A createTask call that plans the task for a day.
PlannedParams == [PlainParams EXCEPT !.plannedForDate = Some(TaskDate)]

\* getBacklogTasks(db, userId): the ids of the rows it returns (their order,
\* by created_at, is left out).
getBacklogTasks(store, userId) ==
    {id \in DOMAIN store :
        /\ store[id].user_id = userId
        /\ store[id].planned_for_date = None
        /\ store[id].status = "BACKLOG"
        /\ ~store[id].deleted}

\* getTasksForDay(db, userId, date): the ids of the rows it returns.
getTasksForDay(store, userId, date) ==
    {id \in DOMAIN store :
        /\ store[id].user_id = userId
        /\ store[id].planned_for_date = Some(date)
        /\ ~store[id].deleted}

InitPlan ==
    /\ tasks = <<>>
    /\ clock = 0
    /\ returned = None
    /\ lastCall = "none"
    /\ trip = <<>>
    /\ FnIdle
    /\ ExtIdle

NextPlan ==
    \/ Tick
    \/ \E taskId \in NewIds, p \in {PlainParams, PlannedParams} :
           TasksCreate(taskId, p)
    \/ \E taskId \in DOMAIN tasks \cup {MissingId}, d \in Dates :
           AssignToDay(taskId, DayString(d))
    \/ \E taskId \in DOMAIN tasks \cup {MissingId} : UnassignTask(taskId)
    \/ \E taskId \in DOMAIN tasks \cup {MissingId}, d \in Dates :
           RescheduleTask(taskId, DayString(d))

SpecPlan == InitPlan /\ [][NextPlan]_vars

------------------------------------------------------------------------------
(* The scoring claims, stated from the specification's formulas *)

\* The multiplier table of the specification.
StatedMultiplier(level) ==
    CASE level = "TRIVIAL" -> 1
      [] level = "EASY"    -> 2
      [] level = "MEDIUM"  -> 3
      [] level = "HARD"    -> 5
      [] level = "EXTREME" -> 8

\* The task has the efficiency bonus, as the specification states it.
StatedEfficiency(t) ==
    /\ t.progress = 100
    /\ t.estimated_minutes # None
    /\ t.actual_minutes < Get(t.estimated_minutes)

\* The context gives the focus bonus, as the specification states it.
StatedFocus(ctx) == ctx.taskTypesWorkedToday >= 3

\* basePoints + efficiencyBonus + focusBonus, unrounded, in thousandths:
\* multiplier * progress / 100 * (1 + 0.2 + 0.1).
StatedSumMilli(t, ctx) ==
    StatedMultiplier(t.difficulty) * t.progress
        * (10 + (IF StatedEfficiency(t) THEN 2 ELSE 0)
              + (IF StatedFocus(ctx) THEN 1 ELSE 0))

\* The unrounded sum is exactly halfway between two integers.
StatedTie(t, ctx) == StatedSumMilli(t, ctx) % 1000 = 500

\* The inputs with a tie: <<multiplier, progress, efficiency bonus, focus bonus>>.
TieInputs ==
    {<<1, 50, FALSE, FALSE>>, <<2, 25, FALSE, FALSE>>, <<2, 75, FALSE, FALSE>>,
     <<3, 50, FALSE, FALSE>>, <<5, 10, FALSE, FALSE>>, <<5, 30, FALSE, FALSE>>,
     <<5, 50, FALSE, FALSE>>, <<5, 70, FALSE, FALSE>>, <<5, 90, FALSE, FALSE>>,
     <<5, 100, FALSE, TRUE>>, <<5, 100, TRUE, TRUE>>}

\* C1 as stated: totalPoints >= 0, and totalPoints = 0 if and only if
\* progress = 0.
C1_TotalZeroIffNoProgress ==
    score # None =>
        /\ Get(score).totalPoints >= 0
        /\ Get(score).totalPoints = 0 <=> task.progress = 0

\* C1, amended: totalPoints >= 0, progress = 0 gives totalPoints = 0, and
\* totalPoints = 0 exactly when the unrounded sum is below one half.
C1_TotalZeroIffBelowHalf ==
    score # None =>
        /\ Get(score).totalPoints >= 0
        /\ task.progress = 0 => Get(score).totalPoints = 0
        /\ Get(score).totalPoints = 0 <=> StatedSumMilli(task, context) < 500

C1_Witness ==
    /\ score # None
    /\ Get(score).totalPoints = 0
    /\ task.progress > 0

\* C2 as stated: the basePoints field is 0 only when progress = 0.
C2_BaseZeroOnlyNoProgress ==
    score # None => (Get(score).basePoints = 0 => task.progress = 0)

\* C2, amended: the basePoints field (one decimal) is 0 exactly when
\* multiplier * progress < 5, that is when the unrounded basePoints is below
\* 0.05.
C2_BaseZeroIffBelowTwentieth ==
    score # None =>
        (Get(score).basePoints = 0
            <=> StatedMultiplier(task.difficulty) * task.progress < 5)

C2_Witness ==
    /\ score # None
    /\ Get(score).basePoints = 0
    /\ task.progress > 0

\* The specification's example: HARD, 100 %, 60 estimated, 45 actual, 3 task
\* types.
C3_Example ==
    /\ task.difficulty = "HARD"
    /\ task.progress = 100
    /\ task.estimated_minutes = Some(60)
    /\ task.actual_minutes = 45
    /\ context.taskTypesWorkedToday = 3

\* C3: totalPoints is the integer nearest to the unrounded sum basePoints +
\* efficiencyBonus + focusBonus (not to the sum of the one-decimal fields), and
\* the example scores 5.0 + 1.0 + 0.5, total 7.
C3_TotalFromUnroundedSum ==
    score # None =>
        LET d == 1000 * Get(score).totalPoints - StatedSumMilli(task, context)
        IN  /\ -500 <= d /\ d <= 500
            /\ C3_Example =>
                   Get(score) = [basePoints |-> 50, efficiencyBonus |-> 10,
                                 focusBonus |-> 5, totalPoints |-> 7]

C3_Witness == score # None /\ C3_Example

\* C4: efficiencyBonus is 0.2 * basePoints exactly when progress = 100, the
\* estimate is present and actual < estimated, and 0 otherwise; raising only
\* actualMinutes to the estimate or above removes the bonus.
C4_EfficiencyBonus ==
    score # None =>
        /\ StatedEfficiency(task) =>
               /\ 10 * Get(score).efficiencyBonus = 2 * Get(score).basePoints
               /\ Get(score).efficiencyBonus > 0
        /\ ~StatedEfficiency(task) => Get(score).efficiencyBonus = 0
        /\ StatedEfficiency(task) =>
               \A a \in MinuteValues :
                   a >= Get(task.estimated_minutes) =>
                       calculateTaskScore([task EXCEPT !.actual_minutes = a],
                                          context).efficiencyBonus = 0

C4_Witness ==
    /\ score # None
    /\ Get(score).efficiencyBonus > 0
    /\ \E a \in MinuteValues : a >= Get(task.estimated_minutes)

\* C5 as stated: the unrounded sum is never exactly halfway between two
\* integers.
C5_NoTie == score # None => ~StatedTie(task, context)

\* C5, amended: the sum is halfway between two integers exactly on TieInputs;
\* there totalPoints is the upper integer (half up), and on every other input
\* it is the one integer both rounding rules give.
C5_TiesRoundUp ==
    score # None =>
        LET sum == StatedSumMilli(task, context)
            tie == <<StatedMultiplier(task.difficulty), task.progress,
                     StatedEfficiency(task), StatedFocus(context)>>
        IN  /\ StatedTie(task, context) <=> tie \in TieInputs
            /\ StatedTie(task, context) =>
                   Get(score).totalPoints = (sum \div 1000) + 1
            /\ ~StatedTie(task, context) =>
                   /\ 1000 * Get(score).totalPoints - sum < 500
                   /\ sum - 1000 * Get(score).totalPoints < 500

C5_Witness ==
    /\ score # None
    /\ StatedTie(task, context)
    /\ (StatedSumMilli(task, context) \div 1000) % 2 = 0

\* C6: calculateEfficiency is 1.0 when the estimate is absent or
\* actualMinutes = 0, and estimatedMinutes / actualMinutes otherwise, an
\* estimate of 0 included.
C6_Efficiency ==
    efficiency # None =>
        LET e == Get(efficiency)
        IN  IF task.estimated_minutes = None \/ task.actual_minutes = 0
            THEN e.num = e.den
            ELSE e.num * task.actual_minutes
                     = e.den * Get(task.estimated_minutes)

------------------------------------------------------------------------------
(* The priority claims *)

\* a is not after b
NotAfter(a, b) == a.day < b.day \/ (a.day = b.day /\ a.ms <= b.ms)

PlusDays(a, n) == [day |-> a.day + n, ms |-> a.ms]

\* ceil((a - b) / 1 day): the n with b + (n - 1) days < a <= b + n days.
StatedCeilDays(a, b) ==
    CHOOSE n \in -40 .. 40 :
        /\ NotAfter(a, PlusDays(b, n))
        /\ ~NotAfter(a, PlusDays(b, n - 1))

StatedDueBand(t, now) ==
    IF t.due_date = None THEN 0
    ELSE LET d == StatedCeilDays(Get(t.due_date), now)
         IN  CASE d <= 0            -> 40
               [] d = 1             -> 35
               [] d > 1 /\ d <= 7   -> 25
               [] d > 7 /\ d <= 30  -> 10
               [] d > 30            -> 0

StatedCompletionBand(t) ==
    CASE t.progress >= 80                    -> 30
      [] t.progress >= 50 /\ t.progress < 80 -> 15
      [] t.progress < 50                     -> 0

\* 20 if (max - actual) / max <= 0.2, else 10 if it is <= 0.5, only when
\* maxMinutes and actualMinutes are both present and non-zero.
StatedTimeBand(t) ==
    IF t.max_minutes = None \/ Get(t.max_minutes) = 0 \/ t.actual_minutes = 0
    THEN 0
    ELSE LET max == Get(t.max_minutes)
             rem == max - t.actual_minutes
         IN  CASE 10 * rem <= 2 * max                       -> 20
               [] 10 * rem > 2 * max /\ 10 * rem <= 5 * max -> 10
               [] 10 * rem > 5 * max                        -> 0

StatedNeglectBand(t, now) ==
    IF t.updated_at = None THEN 0
    ELSE LET d == StatedCeilDays(now, Get(t.updated_at))
         IN  CASE d >= 7          -> 10
               [] d >= 3 /\ d < 7 -> 5
               [] d < 3           -> 0

\* The specification's example: due in exactly 1 day, progress 85, no time
\* tracking, updated 10 days ago.
C7_Example ==
    /\ task.due_date = Some(PlusDays(Get(today), 1))
    /\ task.progress = 85
    /\ task.max_minutes = None
    /\ task.actual_minutes = 0
    /\ task.updated_at = Some(PlusDays(Get(today), -10))

\* C7: calculatePriority is the sum of the due-date, completion,
\* time-constraint and neglect bands, each evaluated on its own; the example
\* scores 35 + 30 + 0 + 10 = 75.
C7_PriorityIsSumOfBands ==
    priority # None =>
        /\ Get(priority) = StatedDueBand(task, Get(today))
                             + StatedCompletionBand(task)
                             + StatedTimeBand(task)
                             + StatedNeglectBand(task, Get(today))
        /\ C7_Example => Get(priority) = 75

C7_Witness == priority # None /\ C7_Example

------------------------------------------------------------------------------
(* The planning claims *)

\* What assignToDay(taskId, date), called when the clock reads now, makes of
\* the table old: the date set, BACKLOG turned into PLANNED and every other
\* status kept, updated_at refreshed, all else as it was.
StatedAssign(old, new, taskId, date, now) ==
    /\ DOMAIN new = DOMAIN old
    /\ \A other \in DOMAIN old \ {taskId} : new[other] = old[other]
    /\ taskId \in DOMAIN old =>
           /\ new[taskId].planned_for_date = Some(date)
           /\ old[taskId].status = "BACKLOG" => new[taskId].status = "PLANNED"
           /\ old[taskId].status # "BACKLOG" =>
                  new[taskId].status = old[taskId].status
           /\ new[taskId].updated_at = now
           /\ \A f \in DOMAIN old[taskId]
                       \ {"planned_for_date", "status", "updated_at"} :
                  new[taskId][f] = old[taskId][f]

\* C9: assignToDay and rescheduleTask set plannedForDate, turn BACKLOG (and no
\* other status) into PLANNED, refresh updatedAt and change nothing else, in
\* that task or in any other.
C9_AssignFrame ==
    [][\A id \in CallIds, d \in Dates :
           (AssignToDay(id, d) \/ RescheduleTask(id, d)) =>
               /\ StatedAssign(tasks, tasks', id, d, clock)
               /\ returned' = (IF id \in DOMAIN tasks
                               THEN Some(tasks'[id]) ELSE None)]_vars

C9_Witness ==
    /\ lastCall \in {"assignToDay", "rescheduleTask"}
    /\ returned # None
    /\ Get(returned).status = "PLANNED"
    /\ Get(returned).updated_at > 0
    /\ tasks[Get(returned).id] = Get(returned)
    /\ \E other \in TaskIds :
           other # Get(returned).id /\ tasks[other].status = "COMPLETED"

\* C10: assignToDay on a BACKLOG task without a planned date, any number of
\* rescheduleTask calls, then unassignTask: the task is as before the
\* assignToDay but for updated_at, so status BACKLOG and no planned date.
C10_RoundTrip ==
    \A id \in DOMAIN trip :
        trip[id].phase = "closed" =>
            /\ tasks[id].status = "BACKLOG"
            /\ tasks[id].planned_for_date = None
            /\ tasks[id] = [Get(trip[id].before)
                               EXCEPT !.updated_at = tasks[id].updated_at]

C10_Witness ==
    \E id \in DOMAIN trip :
        /\ trip[id].phase = "closed"
        /\ trip[id].rescheduled
        /\ tasks[id].updated_at # Get(trip[id].before).updated_at

------------------------------------------------------------------------------
(* The concurrency claim of the planning calls *)

\* Both callers have returned.
BothDone == \A c \in Callers : calls[c].pc = "done"

\* The table after call x and then call y, each run alone.
SerialOutcome(x, y) == CallUpdate(CallUpdate(tasks0, calls[x]), calls[y])

\* C11: with the UPDATE and SELECT of two calls on one task interleaved, the
\* stored task ends as after one of the two serial orders, and the task an
\* assignToDay(taskId, date) returns has plannedForDate = date.
C11_CallsAtomic ==
    /\ BothDone =>
           tasks \in {SerialOutcome("a", "b"), SerialOutcome("b", "a")}
    /\ \A c \in Callers :
           (calls[c].pc = "done" /\ calls[c].op = "assignToDay"
              /\ calls[c].result # None)
               => Get(calls[c].result).planned_for_date = calls[c].date

\* C11, the stored task alone: it ends as after one of the two serial orders
\* (the UPDATE is one statement, the last one run wins).
C11_LastWriterWins ==
    BothDone => tasks \in {SerialOutcome("a", "b"), SerialOutcome("b", "a")}

------------------------------------------------------------------------------
(* The daily score claim *)

\* The sum of totalPoints over the first n tasks of the list.
RECURSIVE SumOfTotalPoints(_, _, _)
SumOfTotalPoints(ts, ctx, n) ==
    IF n = 0 THEN 0
    ELSE calculateTaskScore(ts[n], ctx).totalPoints + SumOfTotalPoints(ts, ctx, n - 1)

\* The list rearranged by the permutation p of its indices.
Permuted(ts, p) == [i \in 1 .. Len(ts) |-> ts[p[i]]]

\* C12: calculateDailyScore(tasks, context) is the sum over the tasks of
\* calculateTaskScore(task, context).totalPoints, each task rounded before the
\* sum; it is 0 for the empty list and the same for every permutation of the
\* list.
C12_DailyScoreIsSum ==
    dailyScore # None =>
        /\ Get(dailyScore)
               = SumOfTotalPoints(completedTasks, context, Len(completedTasks))
        /\ completedTasks = <<>> => Get(dailyScore) = 0
        /\ \A p \in Permutations(1 .. Len(completedTasks)) :
               calculateDailyScore(Permuted(completedTasks, p), context)
                   = Get(dailyScore)

\* A scored list of different tasks (0.5, 0.4 and 0.5 points) whose unrounded
\* points add up to 1.4, while the daily score is 1 + 0 + 1.
C12_Witness ==
    /\ dailyScore # None
    /\ Len(completedTasks) = 3
    /\ context.taskTypesWorkedToday = 0
    /\ [i \in 1 .. 3 |-> completedTasks[i].progress] = <<50, 40, 50>>
    /\ Get(dailyScore) = 2

------------------------------------------------------------------------------
(* The createTask claim *)

\* The rejections the specification lists for createTask.
StatedCreateRejected(p, now) ==
    \/ Length(p.title) = 0
    \/ p.title.core = 0
    \/ Length(p.title) > 200
    \/ p.projectId = ""
    \/ p.estimatedMinutes # None /\ Get(p.estimatedMinutes) < 0
    \/ p.maxMinutes # None /\ Get(p.maxMinutes) < 0
    \/ /\ p.estimatedMinutes # None
       /\ p.maxMinutes # None
       /\ Get(p.estimatedMinutes) > Get(p.maxMinutes)
    \/ p.dueDate # None /\ Get(p.dueDate) < now
    \/ p.description # None /\ Length(Get(p.description)) > 5000

\* Exactly one task more, with the initial fields the specification lists.
StatedCreated(old, new) ==
    /\ DOMAIN old \subseteq DOMAIN new
    /\ Cardinality(DOMAIN new \ DOMAIN old) = 1
    /\ \A id \in DOMAIN old : new[id] = old[id]
    /\ \A id \in DOMAIN new \ DOMAIN old :
           /\ new[id].progress = 0
           /\ new[id].status = "BACKLOG"
           /\ new[id].actual_minutes = 0
           /\ new[id].deleted = FALSE
           /\ (new[id].estimated_minutes # None /\ new[id].max_minutes # None)
                  => Get(new[id].estimated_minutes) <= Get(new[id].max_minutes)

\* C14: createTask either throws a TaskValidationError and creates no task
\* (title empty, whitespace-only or longer than 200 characters, projectId
\* missing, estimatedMinutes or maxMinutes negative, estimatedMinutes above
\* maxMinutes, dueDate in the past, description longer than 5000 characters),
\* or creates exactly one task with progress 0, status BACKLOG,
\* actual_minutes 0, deleted false and estimated_minutes <= max_minutes when
\* both are set.
C14_CreateOrReject ==
    [][\A taskId \in NewIds :
           CreateTask(taskId) =>
               IF StatedCreateRejected(Get(params).args, clock)
               THEN /\ thrown' # None
                    /\ Get(thrown').name = "TaskValidationError"
                    /\ tasks' = tasks
               ELSE /\ thrown' = None
                    /\ StatedCreated(tasks, tasks')]_vars

\* A task created next to an existing one with both time limits set, and
\* a call rejected for no reason but its estimate above its max time.
C14_Witness ==
    /\ lastCall = "createTask"
    /\ \/ /\ thrown = None
          /\ Cardinality(DOMAIN tasks) = 2
          /\ Get(returned).estimated_minutes = Some(1)
          /\ Get(returned).max_minutes = Some(1)
          /\ tasks[Get(returned).id] = Get(returned)
       \/ /\ thrown # None
          /\ Get(thrown).field = "estimatedMinutes"
          /\ Get(params).args.estimatedMinutes = Some(2)
          /\ Get(params).args.maxMinutes = Some(1)
          /\ Cardinality(DOMAIN tasks) = 1

------------------------------------------------------------------------------
(* The updateTask claims *)

\* The rejections the specification lists for updateTask.
StatedUpdateRejected(p) ==
    \/ p.title # None /\ (Length(Get(p.title)) = 0 \/ Length(Get(p.title)) > 200)
    \/ p.progress # None /\ (Get(p.progress) < Pct(0) \/ Get(p.progress) > Pct(100))
    \/ p.description # None /\ Length(Get(p.description)) > 5000

\* The stated effect of updateTask on the row of the task: a column whose
\* field is not given keeps its value, but for updated_at and the completion
\* coupling; stamps tells when completed_at is written.
StatedUpdate(old, new, p, now, stamps) ==
    /\ p.title = None => new.title = old.title
    /\ p.description = None => new.description = old.description
    /\ new.progress = (IF p.progress # None THEN Get(p.progress)
                       ELSE IF p.status = Some("COMPLETED") THEN Pct(100)
                       ELSE old.progress)
    /\ new.status = (IF p.status # None THEN Get(p.status)
                     ELSE IF p.progress = Some(Pct(100)) THEN "COMPLETED"
                     ELSE old.status)
    /\ new.completed_at = (IF stamps THEN Some(now) ELSE old.completed_at)
    /\ p.estimatedMinutes = None => new.estimated_minutes = old.estimated_minutes
    /\ p.maxMinutes = None => new.max_minutes = old.max_minutes
    /\ p.plannedForDate = None => new.planned_for_date = old.planned_for_date
    /\ p.dueDate = None => new.due_date = old.due_date
    /\ p.taskTypeId = None => new.task_type_id = old.task_type_id
    /\ new.updated_at = Some(now)
    /\ \A f \in {"id", "user_id", "project_id", "parent_task_id", "difficulty",
                 "actual_minutes", "deleted"} : new[f] = old[f]

\* completed_at is written in the two coupling cases the specification names.
StampsAsStated(p) ==
    \/ p.progress = Some(Pct(100)) /\ p.status = None
    \/ p.status = Some("COMPLETED") /\ p.progress = None

\* completed_at is written whenever the call completes the task.
StampsOnCompletion(p) ==
    \/ p.progress = Some(Pct(100)) /\ p.status = None
    \/ p.status = Some("COMPLETED")

\* C18: updateTask changes only the fields given in params, plus updated_at
\* and the completion coupling: progress 100 without a status sets status
\* COMPLETED and completed_at; status COMPLETED without a progress sets
\* progress 100 and completed_at; with both given, both are stored as given
\* (and nothing else changes). A rejected call (empty or over-200-character
\* title, progress outside 0..100, description over 5000 characters) writes
\* nothing.
C18_OnlyGivenFieldsChange ==
    [][UpdateTask =>
           LET id == Get(params).taskId
               p  == Get(params).args
           IN  /\ StatedUpdateRejected(p) => thrown' # None
               /\ thrown' # None => tasks' = tasks
               /\ thrown' = None =>
                      /\ DOMAIN tasks' = DOMAIN tasks
                      /\ \A other \in DOMAIN tasks \ {id} : tasks'[other] = tasks[other]
                      /\ id \in DOMAIN tasks =>
                             StatedUpdate(tasks[id], tasks'[id], p, clock,
                                          StampsAsStated(p))]_vars

\* C18, amended: as stated, and completed_at is also written when status
\* COMPLETED is given together with a progress.
C18_GivenFieldsAndCompletion ==
    [][UpdateTask =>
           LET id == Get(params).taskId
               p  == Get(params).args
           IN  /\ StatedUpdateRejected(p) => thrown' # None
               /\ thrown' # None => tasks' = tasks
               /\ thrown' = None =>
                      /\ DOMAIN tasks' = DOMAIN tasks
                      /\ \A other \in DOMAIN tasks \ {id} : tasks'[other] = tasks[other]
                      /\ id \in DOMAIN tasks =>
                             StatedUpdate(tasks[id], tasks'[id], p, clock,
                                          StampsOnCompletion(p))]_vars

\* updateTask returned after a call that gave status COMPLETED together with
\* a progress of 50 and no other field: both are stored as given and
\* completed_at is the time of the call.
C18_Witness ==
    /\ lastCall = "updateTask"
    /\ thrown = None
    /\ returned # None
    /\ Get(params).args = [NoUpdate EXCEPT !.progress = Some(Pct(50)),
                                           !.status = Some("COMPLETED")]
    /\ Get(returned).progress = Pct(50)
    /\ Get(returned).status = "COMPLETED"
    /\ Get(returned).completed_at = Some(clock)
    /\ Get(returned).title = Str(0, 3)
    /\ tasks[Get(returned).id] = Get(returned)

------------------------------------------------------------------------------
(* The claims about sequences of task calls *)

\* round(mean of the progress of the sub-tasks ids), in percent: the whole
\* number m with m - 1/2 <= mean < m + 1/2.
StatedRoundedMean(store, ids) ==
    LET n == Cardinality(ids)
        total == TotalProgress(store, ids)
    IN  CHOOSE m \in 0 .. 101 :
            /\ (2 * m - 1) * n <= total
            /\ total < (2 * m + 1) * n

\* C13: after updateTaskProgress(taskId, progress) completes on a sub-task, the
\* progress of the parent is round(mean of the progress of the parent's
\* non-deleted sub-tasks) and the parent is COMPLETED when that is 100; when
\* the task has no parent, no task other than taskId is modified.
C13_ParentRollup ==
    \* (the call leaves its progress argument in the row of taskId)
    [][\A id \in DOMAIN tasks :
           (/\ lastCall' = "updateTaskProgress"
            /\ thrown' = None
            /\ tasks'[id].progress \in SequenceProgresses
            /\ UpdateTaskProgress(id, tasks'[id].progress)) =>
               IF tasks[id].parent_task_id # None
               THEN LET parent == Get(tasks[id].parent_task_id)
                        subs == {s \in DOMAIN tasks' :
                                    /\ tasks'[s].parent_task_id = Some(parent)
                                    /\ ~tasks'[s].deleted}
                    IN  (parent \in DOMAIN tasks' /\ subs # {}) =>
                            /\ tasks'[parent].progress
                                   = Pct(StatedRoundedMean(tasks', subs))
                            /\ StatedRoundedMean(tasks', subs) = 100
                                   => tasks'[parent].status = "COMPLETED"
               ELSE \A other \in DOMAIN tasks \ {id} : tasks'[other] = tasks[other]]_vars

\* updateTaskProgress has completed with the two live sub-tasks at 50.5 and
\* 100 and the deleted one at 0: the parent is at round(75.25) = 75, not at
\* the 50 that counting the deleted sub-task gives.
C13_Witness ==
    /\ lastCall = "updateTaskProgress"
    /\ thrown = None
    /\ DOMAIN tasks = {ParentId, "t2", "n1", "n2"}
    /\ tasks["t2"].deleted /\ tasks["t2"].progress = Pct(0)
    /\ tasks["n1"].progress = Pct(50) + 1
    /\ tasks["n2"].progress = Pct(100)
    /\ tasks[ParentId].progress = Pct(75)

\* C19: in every state reachable by createTask, updateTask, updateTaskProgress
\* and updateParentProgress calls, the progress of every stored task is an
\* integer in 0..100 (a whole, even number of halves of a percent).
C19_ProgressIsInteger ==
    \A id \in DOMAIN tasks :
        /\ tasks[id].progress % Pct(1) = 0
        /\ Pct(0) <= tasks[id].progress
        /\ tasks[id].progress <= Pct(100)

\* C20: in every state reachable by createTask, updateTask and
\* updateTaskProgress calls, a task whose status is COMPLETED has progress 100
\* and a completed_at timestamp.
C20_CompletedIsFull ==
    \A id \in DOMAIN tasks :
        tasks[id].status = "COMPLETED" =>
            /\ tasks[id].progress = Pct(100)
            /\ tasks[id].completed_at # None

------------------------------------------------------------------------------
(* The time entry claims *)

\* The entries of the user that have not ended.
ActiveEntries(userId) ==
    {id \in DOMAIN entries : entries[id].userId = userId /\ entries[id].endedAt = None}

AtMostOneActive == \A u \in Users : Cardinality(ActiveEntries(u)) <= 1

\* C15: start throws and creates no time entry when the user has an active
\* entry or the task does not exist; with start, stop, stopActive and delete
\* run one at a time, every user has at most one active time entry.
C15_StartGuardsOneActive ==
    /\ []AtMostOneActive
    /\ [][\A entryId \in EntryIds, p \in StartTimeEntryParams :
              (lastCall' = "start" /\ Start(entryId, p)) =>
                  IF ActiveEntries(p.userId) # {} \/ p.taskId \notin DOMAIN tasks
                  THEN thrown' # None /\ entries' = entries
                  ELSE thrown' = None]_vars

\* start has thrown for a user whose timer runs, while the other user has a
\* running timer too: two active entries, one for each user.
C15_Witness ==
    /\ lastCall = "start"
    /\ thrown = Some("User already has an active time entry. Stop the current timer first.")
    /\ \A u \in Users : Cardinality(ActiveEntries(u)) = 1

\* C16: a user never has two active time entries, also when two start calls
\* for the user interleave at their awaits (findActive, findById, create).
C16_NeverTwoActive ==
    \A u \in Users : Cardinality(ActiveEntries(u)) < 2

\* C17: when stop or delete completes, the actualMinutes of the task of the
\* entry is the total minutes over the entries the task has left; stop on a
\* missing or stopped entry and delete on a missing entry throw and change no
\* time entry and no task.
C17_ActualMinutesIsTotal ==
    [][\A entryId \in EntryIds \cup {MissingEntry} :
           /\ (lastCall' = "stop" /\ Stop(entryId)) =>
                  IF entryId \notin DOMAIN entries \/ entries[entryId].endedAt # None
                  THEN thrown' # None /\ entries' = entries /\ tasks' = tasks
                  ELSE /\ thrown' = None
                       /\ tasks'[entries[entryId].taskId].actualMinutes
                              = calculateTotalMinutes(entries', entries[entryId].taskId)
           /\ (lastCall' = "delete" /\ Delete(entryId)) =>
                  IF entryId \notin DOMAIN entries
                  THEN thrown' # None /\ entries' = entries /\ tasks' = tasks
                  ELSE /\ thrown' = None
                       /\ entryId \notin DOMAIN entries'
                       /\ tasks'[entries[entryId].taskId].actualMinutes
                              = calculateTotalMinutes(entries', entries[entryId].taskId)]_vars

\* stop has completed on the second entry of a task: both entries have
\* ended, one minute each, and the task has two actual minutes.
C17_Witness ==
    /\ lastCall = "stop"
    /\ thrown = None
    /\ DOMAIN entries = EntryIds
    /\ \A id \in EntryIds :
           /\ entries[id].taskId = "t1"
           /\ entries[id].endedAt = Some(entries[id].startedAt + 1)
    /\ tasks["t1"].actualMinutes = 2

------------------------------------------------------------------------------
(* The backlog claim *)

\* C21: in every state reachable by createTask, assignToDay, unassignTask and
\* rescheduleTask calls, a task has status BACKLOG if and only if it has no
\* plannedForDate, so every non-deleted task that getBacklogTasks does not
\* return is returned by getTasksForDay for its planned date.
C21_BacklogIffUnplanned ==
    \A id \in DOMAIN tasks :
        /\ tasks[id].status = "BACKLOG" <=> tasks[id].planned_for_date = None
        /\ (~tasks[id].deleted /\ id \notin getBacklogTasks(tasks, tasks[id].user_id))
               => /\ tasks[id].planned_for_date # None
                  /\ id \in getTasksForDay(tasks, tasks[id].user_id,
                                           Get(tasks[id].planned_for_date))

\* C21, the half that holds: a task without a plannedForDate has status
\* BACKLOG, and every non-deleted task is returned by getBacklogTasks or by
\* getTasksForDay for its planned date.
C21_UnplannedIsBacklog ==
    \A id \in DOMAIN tasks :
        /\ tasks[id].planned_for_date = None => tasks[id].status = "BACKLOG"
        /\ (~tasks[id].deleted /\ id \notin getBacklogTasks(tasks, tasks[id].user_id))
               => /\ tasks[id].planned_for_date # None
                  /\ id \in getTasksForDay(tasks, tasks[id].user_id,
                                           Get(tasks[id].planned_for_date))

====
